---- MODULE Spec2Model ----
(***************************************************************************)
(* Model of the SLURM orchestration of the call-analysis pipeline          *)
(* (submit_slurm.py): SpeakerAnalysisOrchestrator.run and the methods it   *)
(* calls, together with the scheduler and the jobs it talks to.            *)
(*                                                                         *)
(* A work unit (speaker folder) is named by a number; the order of the     *)
(* numbers is the lexicographic order of the directory names.              *)
(***************************************************************************)
EXTENDS Integers, Sequences, FiniteSets, TLC

\* ------------------------------------------------------------------ bounds

\* Largest number of entries of the base directory, hence of speaker folders.
MaxUnits == 3
\* Value at which the counters of wait intervals and of calls stop counting.
MaxCycles == 2
\* Largest number of entries of a manifest drawn as an input of organise_results.
MaxCalls == 2

\* -------------------------------------------------------- program constants

DEFAULT_SCORE_THRESHOLD == 75

AUDIO_EXTENSIONS == {".mp3", ".wav", ".m4a", ".flac", ".ogg", ".wmv", ".avi", ".mp4"}

DEFAULT_GPU_PARTITION == <<"gpu-", "rtx6k">>

Units == 1..MaxUnits

\* ------------------------------------------------------------------- state

VARIABLES
    pc,               \* position of run(): the statement executed next
    speaker_folders,  \* self.speaker_folders
    job_ids,          \* self.job_ids
    score_threshold,  \* self.score_threshold
    idx,              \* position of the for loop of run() being executed
    remaining,        \* monitor_jobs: the list "remaining" of the current cycle
    probe_idx,        \* monitor_jobs: position of "for job in self.job_ids"
    polls,            \* number of "squeue -j" commands issued so far
    sleeps,           \* number of time.sleep(180) calls so far
    generated,        \* per unit: number of create_slurm_job_script calls
    submits,          \* per unit: number of submit_slurm_job calls
    organised,        \* per unit: number of organise_results calls
    outcome,          \* per unit: what its organise_results call did
    sbatch_jobs,      \* scheduler: the unit of every accepted job, in order
    queue,            \* scheduler: identifiers with an active-queue entry
    base_exists,      \* filesystem: the base directory exists
    tree,             \* filesystem: the entries of the base directory
    manifest,         \* filesystem: <unit>/analysis_results.json
    roots,            \* filesystem: the destination roots made inside the units
    routed,           \* filesystem: per-call directories under the two roots
    percall,          \* filesystem: what every per-call directory holds
    scripts,          \* filesystem: the job scripts, by path
    exit_code,        \* process: <<>> while it runs, then <<its exit code>>
    cancelled,        \* scheduler commands: the jobs a cancel was issued for
    hf_token,         \* self.hf_token
    config,           \* self.config
    script_run        \* the run of the script of a job

progVars == <<pc, speaker_folders, job_ids, score_threshold, idx, remaining, probe_idx>>
callVars == <<polls, sleeps, generated, submits, organised, outcome>>
schedVars == <<sbatch_jobs, queue>>
fsVars == <<base_exists, tree, manifest, roots, routed, percall, scripts>>
procVars == <<exit_code, cancelled>>
cfgVars == <<hf_token, config>>
jobVars == <<script_run>>
vars == <<progVars, callVars, schedVars, fsVars, procVars, cfgVars, jobVars>>

\* ------------------------------------------------------------------ helpers

Range(s) == {s[k] : k \in 1..Len(s)}

\* A counter that stops counting at cap.
Bump(n, cap) == IF n < cap THEN n + 1 ELSE n

PollCap == MaxUnits * MaxCycles + 1

\* The identifier the scheduler gives its n-th accepted job.
JobId(n) == ToString(1000 + n)

\* A directory without entries, a set of files without members.
NoFiles == [p \in {} |-> <<>>]

\* __main__: the exit code of the process for each way main() ends: it
\* returns, an exception nothing catches leaves it, or KeyboardInterrupt is
\* turned into SystemExit(130).
ExitCode(ending) ==
    CASE ending = "returned" -> <<0>>
      [] ending = "raised" -> <<1>>
      [] ending = "interrupted" -> <<130>>

\* ---------------------------------------------------------------- manifests

\* A file name: stem and extension ("" when the name has no suffix).
Name(stem, ext) == [stem |-> stem, ext |-> ext]
NoName == Name(0, "")

\* One manifest entry: transcription_file -> payload. A score is a JSON number,
\* kept in half points (score2 = 149 is the score 74.5). A payload may lack the
\* "score" and "audio_file" keys (has_score = FALSE, audio_file = NoName).
Entry(file, has_score, score2, audio) ==
    [transcription_file |-> file,
     payload |-> [has_score |-> has_score, score2 |-> score2, audio_file |-> audio]]

NoManifest == [exists |-> FALSE, entries |-> <<>>]
Manifest(entries) == [exists |-> TRUE, entries |-> entries]

\* What an earlier invocation left behind, and what a job of this run writes.
StaleManifest ==
    Manifest(<<Entry(Name(1, ".vtt"), TRUE, 2 * (DEFAULT_SCORE_THRESHOLD - 1), Name(1, ".wav"))>>)
FreshManifest ==
    Manifest(<<Entry(Name(1, ".vtt"), TRUE, 2 * DEFAULT_SCORE_THRESHOLD, Name(1, ".wav"))>>)

\* ----------------------------------------------------- the base directory

\* What lies below an entry of the base directory, as rglob("*") yields it: a
\* file or a directory, with its name and its depth below the entry.
Node(stem, suffix, kind, depth) ==
    [stem |-> stem, suffix |-> suffix, kind |-> kind, depth |-> depth]

\* An entry of the base directory: a directory or not, its name dot-prefixed
\* or not, and what lies below it.
DirEntry(hidden, nodes) == [is_dir |-> TRUE, hidden |-> hidden, nodes |-> nodes]
FileEntry(hidden) == [is_dir |-> FALSE, hidden |-> hidden, nodes |-> {}]

\* The files directly inside an entry, by name.
FilesOf(entry) ==
    {Name(f.stem, f.suffix) : f \in {g \in entry.nodes : g.kind = "file" /\ g.depth = 1}}

\* What a speaker folder holds: two recordings, and the transcript of the first.
RecordingNodes == {Node(1, ".wav", "file", 1), Node(1, ".vtt", "file", 1),
                   Node(2, ".mp3", "file", 1)}

\* The base directory with the speaker folders 1..n and nothing else.
SpeakerTree(n) == [e \in 1..n |-> DirEntry(FALSE, RecordingNodes)]

\* --------------------------------------------------------------- discovery

\* str.lower() on the suffixes drawn as inputs.
Lower(s) ==
    CASE s = ".WAV" -> ".wav"
      [] s = ".MP3" -> ".mp3"
      [] OTHER -> s

\* The orders in which iterdir() can yield the entries of the base directory.
ListingOrders(t) ==
    {s \in [1..Cardinality(DOMAIN t) -> DOMAIN t] :
        \A k, l \in 1..Cardinality(DOMAIN t) : s[k] = s[l] => k = l}

RECURSIVE Insert(_, _)
Insert(s, x) ==
    IF s = <<>> THEN <<x>>
    ELSE IF x <= Head(s) THEN <<x>> \o s
    ELSE <<Head(s)>> \o Insert(Tail(s), x)

\* sorted(): by name, ascending.
RECURSIVE Sorted(_)
Sorted(s) == IF s = <<>> THEN <<>> ELSE Insert(Sorted(Tail(s)), Head(s))

\* discover_speaker_folders, lines 72-74: what rglob("*") yields with a suffix
\* that is, in lower case, an audio extension.
AudioFiles(entry) == {f \in entry.nodes : Lower(f.suffix) \in AUDIO_EXTENSIONS}

\* Variant: a folder is appended once per audio file, for folders that hold two.
DiscoverSpeakerFoldersPerFile(listing, t) ==
    LET s == SelectSeq(Sorted(listing),
                       LAMBDA e : t[e].is_dir /\ ~t[e].hidden /\ AudioFiles(t[e]) # {})
    IN [k \in 1..(2 * Len(s)) |-> s[(k + 1) \div 2]]

\* discover_speaker_folders: of the entries in sorted order, the directories
\* whose name has no leading dot and below which there is an audio file.
DiscoverSpeakerFolders(listing, t) ==
    SelectSeq(Sorted(listing),
              LAMBDA e : t[e].is_dir /\ ~t[e].hidden /\ AudioFiles(t[e]) # {})

\* ---------------------------------------------------------- job scripts

\* str.startswith and str.replace(old, "") on a string given by its segments.
StartsWith(s, prefix) == s # <<>> /\ Head(s) = prefix
Replace(s, old) == SelectSeq(s, LAMBDA x : x # old)

\* create_slurm_job_script, line 89: the account directive ("" when there is none).
AccountLine(cfg) == cfg.account

\* create_slurm_job_script, lines 92-100: the QoS directive (<<>> when there
\* is none): the explicit QoS, or account, "-gpu-" and the partition with every
\* "gpu-" taken out.
QosLine(cfg) ==
    IF cfg.qos # <<>> THEN cfg.qos
    ELSE IF cfg.account # "" /\ StartsWith(cfg.partition, "gpu-")
         THEN <<cfg.account, "-", "gpu-">> \o Replace(cfg.partition, "gpu-")
         ELSE <<>>

\* create_slurm_job_script, lines 84-85: where the script of a unit is written.
ScriptPath(unit) == [dir |-> "base_dir", name |-> unit, suffix |-> "_pipeline.slurm"]

\* create_slurm_job_script, lines 102-203: the text of the script, by the
\* values its template interpolates.
ScriptText(unit, cfg, token) ==
    [job_name |-> unit,
     partition |-> cfg.partition,
     account_line |-> AccountLine(cfg),
     qos_line |-> QosLine(cfg),
     export_hf_token |-> token,
     speaker_dir |-> unit]

\* Variant: a script already on disk is kept and the new text written beside it.
WriteTextBeside(files, path, text) ==
    LET p == IF path \in DOMAIN files THEN [path EXCEPT !.suffix = "_pipeline.slurm.1"]
             ELSE path
    IN [q \in DOMAIN files \cup {p} |-> IF q = p THEN text ELSE files[q]]

\* Path.write_text: the file at path holds text, whatever it held before.
WriteText(files, path, text) ==
    [q \in DOMAIN files \cup {path} |-> IF q = path THEN text ELSE files[q]]

\* The configuration when only the required options are given.
DefaultConfig == [partition |-> DEFAULT_GPU_PARTITION, account |-> "", qos |-> <<>>]

\* ------------------------------------------------------------- submission

\* What "sbatch <script>" can answer when the scheduler's next job is number n:
\* accepted (exit code 0, the identifier is the last word of its output, or no
\* output at all), or rejected (non-zero exit code).
SbatchResults(n) ==
    { [returncode |-> 0, stdout |-> <<"Submitted", "batch", "job", JobId(n)>>],
      [returncode |-> 0, stdout |-> <<>>],
      [returncode |-> 1, stdout |-> <<>>] }

\* No identifier (None).
None == ""

\* submit_slurm_job: CalledProcessError is caught and None returned; otherwise
\* the last whitespace-delimited token of the output, and IndexError when there
\* is none.
SubmitRaises(result) == result.returncode = 0 /\ Len(result.stdout) = 0

SubmitSlurmJob(result) ==
    IF result.returncode # 0 THEN None ELSE result.stdout[Len(result.stdout)]

\* Variant: the identifier is appended whatever submit_slurm_job returned.
RecordJobAlways(ids, job_id) == Append(ids, job_id)

\* run: "if job_id: self.job_ids.append(job_id)".
RecordJob(ids, job_id) == IF job_id # None THEN Append(ids, job_id) ELSE ids

\* run: the statement after the body of a for loop over the folders.
AfterLoopBody(k, n, again, after) == IF k < n THEN again ELSE after

\* Variant: the submission loop is left at the first failed submission.
PcAfterSubmitBreak(job_id, k, n) ==
    IF job_id = None THEN "monitor" ELSE AfterLoopBody(k, n, "generate", "monitor")

\* Variant: run() goes from the submission loop to organisation.
PcAfterSubmitNoMonitor(job_id, k, n) == AfterLoopBody(k, n, "generate", "organise")

\* run, lines 306-312: what follows the submission of folder k of n, whatever
\* submit_slurm_job returned.
PcAfterSubmit(job_id, k, n) == AfterLoopBody(k, n, "generate", "monitor")

\* ------------------------------------------------------------- monitoring

\* What "squeue -j <job> --noheader" can answer: the job's queue line, nothing
\* when it has no active-queue entry, or a failure of the query itself.
SqueueResults(job, q) ==
    { [returncode |-> 0, stdout |-> IF job \in q THEN job ELSE ""],
      [returncode |-> 1, stdout |-> ""] }

\* Variant: a query that failed counts as a job still running.
StillRunningUnlessEmpty(probe) == probe.returncode # 0 \/ probe.stdout # ""

\* monitor_jobs: "if probe.returncode == 0 and probe.stdout.strip()".
StillRunning(probe) == probe.returncode = 0 /\ probe.stdout # ""

\* Variant: the test of the early return is inverted.
NothingToMonitorInverted(ids) == ids # <<>>

\* monitor_jobs: "if not self.job_ids: return".
NothingToMonitor(ids) == ids = <<>>

\* Variant: the test that ends the loop is inverted.
AllCompletedInverted(rem) == rem # <<>>

\* monitor_jobs: "if not remaining: return".
AllCompleted(rem) == rem = <<>>

\* monitor_jobs: "remaining = []" at the top of every cycle.
NewCycle(rem) == <<>>

\* ------------------------------------------------------------ organisation

\* int() of a number given in half points: truncation towards zero.
IntOfHalves(h) == IF h >= 0 THEN h \div 2 ELSE -((-h) \div 2)

\* organise_results: "score = int(payload.get('score', 0))".
Score(payload) == IF payload.has_score THEN IntOfHalves(payload.score2) ELSE 0

\* organise_results: "audio_name = payload.get('audio_file', transcription_file)".
AudioName(entry) ==
    IF entry.payload.audio_file # NoName THEN entry.payload.audio_file
    ELSE entry.transcription_file

\* organise_results: "call_id = Path(audio_name).stem".
CallId(entry) == AudioName(entry).stem

\* Variant: the boundary score goes to "needs attention".
DestinationRootInclusive(score, threshold) ==
    IF score <= threshold THEN "needs_further_attention" ELSE "reviewed"

\* organise_results: "needs_attention if score < self.score_threshold else reviewed".
DestinationRoot(score, threshold) ==
    IF score < threshold THEN "needs_further_attention" ELSE "reviewed"

\* Variant: the per-call directory is made in the folder of the next unit.
TargetDirElsewhere(unit, entry, threshold) ==
    [unit |-> (unit % MaxUnits) + 1,
     root |-> DestinationRoot(Score(entry.payload), threshold),
     call_id |-> CallId(entry)]

\* organise_results: the per-call directory of one manifest entry.
TargetDir(unit, entry, threshold) ==
    [unit |-> unit,
     root |-> DestinationRoot(Score(entry.payload), threshold),
     call_id |-> CallId(entry)]

\* organise_results: the per-call directories the loop over the manifest makes.
TargetDirs(unit, entries, threshold) ==
    {TargetDir(unit, entries[k], threshold) : k \in 1..Len(entries)}

\* run: the folders the last loop hands to organise_results.
FoldersToOrganise(folders) == folders

\* organise_results, line 281: the suffixes of the sibling files of a call.
SiblingSuffixes == <<".vtt", ".srt", ".txt", ".json">>

\* Variant: the destination roots are made before the manifest is looked for.
DestinationRootsAlways(unit, exists) ==
    {[unit |-> unit, root |-> r] : r \in {"needs_further_attention", "reviewed"}}

\* organise_results, lines 259-268: the destination roots the call makes in
\* the unit: none without a manifest, both with one.
DestinationRoots(unit, exists) ==
    IF exists
    THEN {[unit |-> unit, root |-> r] : r \in {"needs_further_attention", "reviewed"}}
    ELSE {}

\* Variant: a candidate that does not exist is copied as an empty file.
CopyIfExistsAlways(src, files) == TRUE

\* _copy_if_exists: "if src.exists() and src.is_file()".
CopyIfExists(src, files) == src \in files

\* organise_results, lines 279-283: the files copied for one entry, each under
\* its own name: the audio file, and the siblings named after the call.
CopiedFiles(entry, files) ==
    {f \in {AudioName(entry)} \cup
           {Name(CallId(entry), SiblingSuffixes[k]) : k \in 1..Len(SiblingSuffixes)} :
        CopyIfExists(f, files)}

\* organise_results, lines 270-287: the per-call directories after the loop
\* over the entries: each entry adds its copies to its directory and writes
\* the directory's analysis_results.json, which holds that entry alone.
RECURSIVE OrganiseEntries(_, _, _, _, _)
OrganiseEntries(dirs, unit, entries, threshold, files) ==
    IF entries = <<>> THEN dirs
    ELSE LET entry == Head(entries)
             d == TargetDir(unit, entry, threshold)
             before == IF d \in DOMAIN dirs THEN dirs[d].files ELSE {}
             after == [x \in DOMAIN dirs \cup {d} |->
                          IF x = d
                          THEN [files |-> before \cup CopiedFiles(entry, files),
                                entry |-> entry]
                          ELSE dirs[x]]
         IN OrganiseEntries(after, unit, Tail(entries), threshold, files)

\* organise_results: the entries handled before a failure at entry k stops
\* the call (k = 0: the manifest itself cannot be read).
EntriesBefore(entries, k) == SubSeq(entries, 1, k - 1)

\* An interrupt of the orchestrator: the cancel commands it issues for its
\* jobs. The program has no such command.
CancelOnInterruptAll(ids) == Range(ids)

CancelOnInterrupt(ids) == {}

\* ---------------------------------------------------- the generated script

\* The number of readiness probes: "for i in {1..12}".
READINESS_ATTEMPTS == 12

\* The run of a generated script before its first command: where it is, how
\* often each command ran, what the last probe answered, the state of the
\* "ollama serve" process, whether the EXIT trap is set, and the exit status
\* (<<>> while it runs).
JobNotStarted ==
    [pc |-> "transcribe",
     transcribe_runs |-> 0, transcribe_ok |-> FALSE,
     serve_starts |-> 0, service |-> "none", trap |-> FALSE,
     probes |-> 0, ready |-> FALSE, waits |-> 0,
     model_checks |-> 0, model_present |-> FALSE, pulls |-> 0,
     lists |-> 0, warmups |-> 0, analyze_runs |-> 0,
     status |-> <<>>]

\* Variant: the trap is never run.
ServiceAtExitNoTrap(trap, service) == service

\* Line 164: "trap 'kill $OLLAMA_PID 2>/dev/null || true' EXIT": what an exit
\* of the inner shell does to the service.
ServiceAtExit(trap, service) ==
    IF trap /\ service = "running" THEN "killed" ELSE service

\* The script exits with a status.
Leave(j, status) ==
    [j EXCEPT !.pc = "exited",
              !.status = <<status>>,
              !.service = ServiceAtExit(j.trap, j.service)]

\* Variant: a failed command does not end the script.
AfterCommandIgnoringFailure(ok, next) == next

\* Lines 116 and 147, "set -e": a command that fails ends the script.
AfterCommand(ok, next) == IF ok THEN next ELSE "exit"

\* The script after a command that ended with or without success.
Step(j, ok, next) ==
    IF AfterCommand(ok, next) = "exit" THEN Leave(j, 1)
    ELSE [j EXCEPT !.pc = AfterCommand(ok, next)]

\* What a request to the service can answer: anything while it runs, failure
\* once it is gone.
ServiceAnswers(service) == IF service = "running" THEN BOOLEAN ELSE {FALSE}

\* Lines 169-172: a successful probe leaves the loop, a failed one waits.
AfterProbe(ready) == IF ready THEN "model_check" ELSE "wait"

\* Variant: the loop has no bound.
AfterWaitUnbounded(probes) == "probe"

\* Lines 168 and 175: after the wait the next probe, or after the last wait
\* the end of the loop.
AfterWait(probes) == IF probes < READINESS_ATTEMPTS THEN "probe" ELSE "model_check"

\* ------------------------------------------------------ the scoring step

\* discover_audio_name: the suffixes tried, in this order.
ANALYSIS_AUDIO_SUFFIXES == <<".wav", ".mp3", ".m4a", ".flac", ".ogg">>

\* Path.exists() for a name directly inside an entry.
Exists(name, entry) ==
    \E f \in entry.nodes : f.depth = 1 /\ f.stem = name.stem /\ f.suffix = name.ext

\* discover_audio_name: the name of the first candidate that exists, or the
\* stem of the transcript.
DiscoverAudioName(vtt_file, entry) ==
    LET found == {k \in 1..Len(ANALYSIS_AUDIO_SUFFIXES) :
                    Exists(Name(vtt_file.stem, ANALYSIS_AUDIO_SUFFIXES[k]), entry)}
    IN IF found = {} THEN Name(vtt_file.stem, "")
       ELSE Name(vtt_file.stem,
                 ANALYSIS_AUDIO_SUFFIXES[CHOOSE k \in found : \A l \in found : k <= l])

\* sorted(folder.glob("*.vtt")): the transcripts of the folder, by stem.
RECURSIVE SortedStems(_)
SortedStems(stems) ==
    IF stems = {} THEN <<>>
    ELSE LET m == CHOOSE x \in stems : \A y \in stems : x <= y
         IN <<m>> \o SortedStems(stems \ {m})

VttFiles(entry) ==
    SortedStems({f.stem : f \in {g \in entry.nodes :
                    g.depth = 1 /\ g.kind = "file" /\ g.suffix = ".vtt"}})

\* analyze_speaker_folder: one record per transcript whose analysis succeeded
\* (the stems in analysed), each with the score2 given for it.
AnalyzeSpeakerFolder(entry, analysed, score2) ==
    LET vtt_files == SelectSeq(VttFiles(entry), LAMBDA s : s \in analysed)
    IN [k \in 1..Len(vtt_files) |->
            Entry(Name(vtt_files[k], ".vtt"), TRUE, score2,
                  DiscoverAudioName(Name(vtt_files[k], ".vtt"), entry))]

\* -------------------------------------------------------------------- Init

\* The orchestrator after __init__ and the scheduler before any submission.
InitProgram ==
    /\ pc = "start"
    /\ speaker_folders = <<>>
    /\ job_ids = <<>>
    /\ score_threshold = DEFAULT_SCORE_THRESHOLD
    /\ idx = 1
    /\ remaining = <<>>
    /\ probe_idx = 1
    /\ polls = 0
    /\ sleeps = 0
    /\ generated = [u \in Units |-> 0]
    /\ submits = [u \in Units |-> 0]
    /\ organised = [u \in Units |-> 0]
    /\ outcome = [u \in Units |-> "none"]
    /\ sbatch_jobs = <<>>
    /\ queue = {}
    /\ exit_code = <<>>
    /\ cancelled = {}
    /\ script_run = JobNotStarted

\* No destination directory and no job script yet.
InitOutputs ==
    /\ roots = {}
    /\ routed = {}
    /\ percall = NoFiles
    /\ scripts = NoFiles

\* The base directory is missing, or holds some speaker folders, some of them
\* with the manifest of an earlier invocation.
Init ==
    /\ InitProgram
    /\ InitOutputs
    /\ hf_token = "hf_A"
    /\ config = DefaultConfig
    /\ base_exists \in BOOLEAN
    /\ tree \in {SpeakerTree(n) : n \in 0..MaxUnits}
    /\ manifest \in [Units -> {NoManifest, StaleManifest}]
    /\ ~base_exists => tree = SpeakerTree(0)
    /\ \A u \in Units : u \notin DOMAIN tree => manifest[u] = NoManifest

\* ------------------------------------------------------------ run: actions

\* main and run, lines 299-304: the base directory and its logs directory are
\* made if missing, then discovery; with no folder the run ends.
Discover ==
    /\ pc = "start"
    /\ base_exists' = TRUE
    /\ \E listing \in ListingOrders(tree) :
            speaker_folders' = DiscoverSpeakerFolders(listing, tree)
    /\ pc' = IF speaker_folders' = <<>> THEN "done" ELSE "generate"
    /\ exit_code' = IF speaker_folders' = <<>> THEN ExitCode("returned") ELSE exit_code
    /\ idx' = 1
    /\ UNCHANGED <<job_ids, score_threshold, remaining, probe_idx>>
    /\ UNCHANGED <<tree, manifest, roots, routed, percall, scripts>>
    /\ UNCHANGED <<callVars, schedVars, cancelled, cfgVars, jobVars>>

\* run, line 307: create_slurm_job_script writes the unit's script.
Generate ==
    /\ pc = "generate"
    /\ generated' = [generated EXCEPT ![speaker_folders[idx]] = Bump(@, MaxCycles)]
    /\ scripts' = WriteText(scripts, ScriptPath(speaker_folders[idx]),
                            ScriptText(speaker_folders[idx], config, hf_token))
    /\ pc' = "submit"
    /\ UNCHANGED <<speaker_folders, job_ids, score_threshold, idx, remaining, probe_idx>>
    /\ UNCHANGED <<polls, sleeps, submits, organised, outcome>>
    /\ UNCHANGED <<base_exists, tree, manifest, roots, routed, percall>>
    /\ UNCHANGED <<schedVars, procVars, cfgVars, jobVars>>

\* run, line 307: write_text or chmod raises OSError, which nothing catches.
GenerateRaises ==
    /\ pc = "generate"
    /\ generated' = [generated EXCEPT ![speaker_folders[idx]] = Bump(@, MaxCycles)]
    /\ pc' = "raised_in_generate"
    /\ exit_code' = ExitCode("raised")
    /\ UNCHANGED <<speaker_folders, job_ids, score_threshold, idx, remaining, probe_idx>>
    /\ UNCHANGED <<polls, sleeps, submits, organised, outcome>>
    /\ UNCHANGED <<schedVars, fsVars, cancelled, cfgVars, jobVars>>

\* run, lines 308-310, for one answer of sbatch.
SubmitWith(result) ==
    /\ pc = "submit"
    /\ submits' = [submits EXCEPT ![speaker_folders[idx]] = Bump(@, MaxCycles)]
    /\ IF result.returncode = 0
       THEN /\ sbatch_jobs' = Append(sbatch_jobs, speaker_folders[idx])
            /\ queue' = queue \cup {JobId(Len(sbatch_jobs) + 1)}
       ELSE UNCHANGED schedVars
    /\ IF SubmitRaises(result)
       THEN /\ pc' = "raised_in_submit"
            /\ exit_code' = ExitCode("raised")
            /\ UNCHANGED <<job_ids, idx>>
       ELSE /\ job_ids' = RecordJob(job_ids, SubmitSlurmJob(result))
            /\ pc' = PcAfterSubmit(SubmitSlurmJob(result), idx, Len(speaker_folders))
            /\ idx' = IF pc' = "generate" THEN idx + 1 ELSE 1
            /\ UNCHANGED exit_code
    /\ UNCHANGED <<speaker_folders, score_threshold, remaining, probe_idx>>
    /\ UNCHANGED <<polls, sleeps, generated, organised, outcome>>
    /\ UNCHANGED <<fsVars, cancelled, cfgVars, jobVars>>

\* The scheduler accepts the job and prints its identifier.
SubmitAccepted ==
    \E result \in SbatchResults(Len(sbatch_jobs) + 1) :
        /\ result.returncode = 0 /\ ~SubmitRaises(result)
        /\ SubmitWith(result)

\* The scheduler rejects the submission.
SubmitRejected ==
    \E result \in SbatchResults(Len(sbatch_jobs) + 1) :
        /\ result.returncode # 0
        /\ SubmitWith(result)

\* The scheduler accepts the job and prints nothing.
SubmitCrashes ==
    \E result \in SbatchResults(Len(sbatch_jobs) + 1) :
        /\ SubmitRaises(result)
        /\ SubmitWith(result)

\* monitor_jobs, lines 232-239: the early return, or the first cycle begins.
MonitorEnter ==
    /\ pc = "monitor"
    /\ pc' = IF NothingToMonitor(job_ids) THEN "organise" ELSE "poll"
    /\ remaining' = IF NothingToMonitor(job_ids) THEN remaining ELSE NewCycle(remaining)
    /\ probe_idx' = 1
    /\ UNCHANGED <<speaker_folders, job_ids, score_threshold, idx>>
    /\ UNCHANGED <<callVars, schedVars, fsVars, procVars, cfgVars, jobVars>>

\* monitor_jobs, lines 240-247: one status query of the cycle.
Poll ==
    /\ pc = "poll"
    /\ probe_idx <= Len(job_ids)
    /\ \E probe \in SqueueResults(job_ids[probe_idx], queue) :
            remaining' = IF StillRunning(probe)
                         THEN Append(remaining, job_ids[probe_idx])
                         ELSE remaining
    /\ probe_idx' = probe_idx + 1
    /\ polls' = Bump(polls, PollCap)
    /\ UNCHANGED <<pc, speaker_folders, job_ids, score_threshold, idx>>
    /\ UNCHANGED <<sleeps, generated, submits, organised, outcome>>
    /\ UNCHANGED <<schedVars, fsVars, procVars, cfgVars, jobVars>>

\* monitor_jobs, lines 248-250: a cycle ends with nothing remaining.
MonitorReturn ==
    /\ pc = "poll"
    /\ probe_idx > Len(job_ids)
    /\ AllCompleted(remaining)
    /\ pc' = "organise"
    /\ UNCHANGED <<speaker_folders, job_ids, score_threshold, idx, remaining, probe_idx>>
    /\ UNCHANGED <<callVars, schedVars, fsVars, procVars, cfgVars, jobVars>>

\* monitor_jobs, lines 251-254 and 239: wait, then the next cycle begins.
MonitorWait ==
    /\ pc = "poll"
    /\ probe_idx > Len(job_ids)
    /\ ~AllCompleted(remaining)
    /\ sleeps' = Bump(sleeps, MaxCycles)
    /\ remaining' = NewCycle(remaining)
    /\ probe_idx' = 1
    /\ UNCHANGED <<pc, speaker_folders, job_ids, score_threshold, idx>>
    /\ UNCHANGED <<polls, generated, submits, organised, outcome>>
    /\ UNCHANGED <<schedVars, fsVars, procVars, cfgVars, jobVars>>

\* run, lines 314-315: organise_results of one folder.
Organise ==
    /\ pc = "organise"
    /\ LET folders == FoldersToOrganise(speaker_folders)
           unit == folders[idx]
       IN /\ organised' = [organised EXCEPT ![unit] = Bump(@, MaxCycles)]
          /\ roots' = roots \cup DestinationRoots(unit, manifest[unit].exists)
          /\ IF manifest[unit].exists
             THEN /\ routed' = routed \cup
                        TargetDirs(unit, manifest[unit].entries, score_threshold)
                  /\ percall' = OrganiseEntries(percall, unit, manifest[unit].entries,
                                                score_threshold, FilesOf(tree[unit]))
                  /\ outcome' = [outcome EXCEPT ![unit] = "Routed"]
             ELSE /\ routed' = routed
                  /\ percall' = percall
                  /\ outcome' = [outcome EXCEPT ![unit] = "Skipped"]
          /\ pc' = AfterLoopBody(idx, Len(folders), "organise", "done")
          /\ exit_code' = IF pc' = "done" THEN ExitCode("returned") ELSE exit_code
          /\ idx' = AfterLoopBody(idx, Len(folders), idx + 1, idx)
    /\ UNCHANGED <<speaker_folders, job_ids, score_threshold, remaining, probe_idx>>
    /\ UNCHANGED <<polls, sleeps, generated, submits>>
    /\ UNCHANGED <<schedVars, base_exists, tree, manifest, scripts, cancelled, cfgVars, jobVars>>

\* run, line 315: organise_results raises, which nothing catches: the unit's
\* manifest cannot be read (k = 0), or a directory cannot be made or a file
\* cannot be written for its k-th entry, after the entries before it were
\* handled.
OrganiseRaises ==
    /\ pc = "organise"
    /\ LET folders == FoldersToOrganise(speaker_folders)
           unit == folders[idx]
       IN /\ manifest[unit].exists
          /\ organised' = [organised EXCEPT ![unit] = Bump(@, MaxCycles)]
          /\ outcome' = [outcome EXCEPT ![unit] = "Raised"]
          /\ \E k \in 0..Len(manifest[unit].entries) :
                LET done == EntriesBefore(manifest[unit].entries, k)
                IN /\ roots' = roots \cup DestinationRoots(unit, k > 0)
                   /\ routed' = routed \cup TargetDirs(unit, done, score_threshold)
                   /\ percall' = OrganiseEntries(percall, unit, done, score_threshold,
                                                 FilesOf(tree[unit]))
    /\ pc' = "raised_in_organise"
    /\ exit_code' = ExitCode("raised")
    /\ UNCHANGED <<speaker_folders, job_ids, score_threshold, idx, remaining, probe_idx>>
    /\ UNCHANGED <<polls, sleeps, generated, submits>>
    /\ UNCHANGED <<schedVars, base_exists, tree, manifest, scripts, cancelled, cfgVars, jobVars>>

\* KeyboardInterrupt while run() is at any of its statements: nothing in run()
\* handles it, and __main__ turns it into exit code 130.
Interrupt ==
    /\ pc \in {"start", "generate", "submit", "monitor", "poll", "organise"}
    /\ pc' = "interrupted"
    /\ exit_code' = ExitCode("interrupted")
    /\ cancelled' = cancelled \cup CancelOnInterrupt(job_ids)
    /\ UNCHANGED <<speaker_folders, job_ids, score_threshold, idx, remaining, probe_idx>>
    /\ UNCHANGED <<callVars, schedVars, fsVars, cfgVars, jobVars>>

\* The command is given again, with the same options: a new process, the
\* scheduler and the base directory as the last one left them.
Reinvoke ==
    /\ exit_code # <<>>
    /\ pc' = "start"
    /\ speaker_folders' = <<>>
    /\ job_ids' = <<>>
    /\ idx' = 1
    /\ remaining' = <<>>
    /\ probe_idx' = 1
    /\ polls' = 0
    /\ sleeps' = 0
    /\ generated' = [u \in Units |-> 0]
    /\ submits' = [u \in Units |-> 0]
    /\ organised' = [u \in Units |-> 0]
    /\ outcome' = [u \in Units |-> "none"]
    /\ exit_code' = <<>>
    /\ UNCHANGED <<score_threshold, schedVars, fsVars, cancelled, cfgVars, jobVars>>

\* ------------------------------------------------- the scheduler's jobs

UnitOfJob(job) ==
    sbatch_jobs[CHOOSE n \in 1..Len(sbatch_jobs) : JobId(n) = job]

\* A running job's scoring step saves the unit's manifest.
JobWritesManifest ==
    \E job \in queue :
        /\ manifest[UnitOfJob(job)] # FreshManifest
        /\ manifest' = [manifest EXCEPT ![UnitOfJob(job)] = FreshManifest]
        /\ UNCHANGED <<base_exists, tree, roots, routed, percall, scripts>>
        /\ UNCHANGED <<progVars, callVars, schedVars, procVars, cfgVars, jobVars>>

\* A job ends, with or without success, and leaves the active queue.
JobLeaves ==
    \E job \in queue :
        /\ queue' = queue \ {job}
        /\ UNCHANGED <<progVars, callVars, sbatch_jobs, fsVars, procVars, cfgVars, jobVars>>

\* -------------------------------------------------------------------- Spec

Program ==
    \/ Discover
    \/ Generate
    \/ GenerateRaises
    \/ SubmitAccepted
    \/ SubmitRejected
    \/ SubmitCrashes
    \/ MonitorEnter
    \/ Poll
    \/ MonitorReturn
    \/ MonitorWait
    \/ Organise
    \/ OrganiseRaises

Environment ==
    \/ JobWritesManifest
    \/ JobLeaves

Next == Program \/ Environment

\* One invocation that no signal interrupts.
Spec == Init /\ [][Next]_vars

\* The orchestrator is one sequential process that always takes its next
\* step, and every job in the active queue eventually leaves it.
\* monitor_jobs reads no file, so what the jobs write is left out here.
NextLive == Program \/ JobLeaves

SpecLive == Init /\ [][NextLive]_vars /\ WF_vars(Program) /\ WF_vars(JobLeaves)

\* One invocation that an interrupt may end at any statement.
NextInterrupt == Next \/ Interrupt

SpecInterrupt == Init /\ [][NextInterrupt]_vars

\* ------------------------------------------- organise_results on its inputs

\* The thresholds and scores drawn as inputs: the default and zero, and the
\* scores (in half points, none below zero) within one point of each.
Thresholds == {0, DEFAULT_SCORE_THRESHOLD}
ScoreInputs == {h \in UNION {(2 * t - 2)..(2 * t + 2) : t \in Thresholds} : h >= 0}

PayloadInputs ==
    {[has_score |-> TRUE, score2 |-> h, audio_file |-> a] :
        h \in ScoreInputs, a \in {NoName} \cup {Name(c, ".wav") : c \in 1..MaxCalls}}
    \cup
    {[has_score |-> FALSE, score2 |-> 0, audio_file |-> a] :
        a \in {NoName} \cup {Name(c, ".wav") : c \in 1..MaxCalls}}

\* A manifest is a JSON object: no two entries share a key. keys[k] is the
\* stem of the k-th transcript name, payloads[k] its payload.
KeyInputs(n) ==
    {keys \in [1..n -> 1..MaxCalls] : \A k, l \in 1..n : keys[k] = keys[l] => k = l}

ManifestOf(keys, payloads) ==
    Manifest([k \in 1..Len(keys) |->
        [transcription_file |-> Name(keys[k], ".vtt"), payload |-> payloads[k]]])

\* run() about to organise its only folder, whose submission was rejected.
InitOrganiseProgram ==
    /\ pc = "organise"
    /\ speaker_folders = <<1>>
    /\ job_ids = <<>>
    /\ idx = 1
    /\ remaining = <<>>
    /\ probe_idx = 1
    /\ polls = 0
    /\ sleeps = 0
    /\ generated = [u \in Units |-> IF u = 1 THEN 1 ELSE 0]
    /\ submits = [u \in Units |-> IF u = 1 THEN 1 ELSE 0]
    /\ organised = [u \in Units |-> 0]
    /\ outcome = [u \in Units |-> "none"]
    /\ sbatch_jobs = <<>>
    /\ queue = {}
    /\ exit_code = <<>>
    /\ cancelled = {}
    /\ script_run = JobNotStarted
    /\ hf_token = "hf_A"
    /\ config = DefaultConfig
    /\ base_exists = TRUE
    /\ roots = {}
    /\ routed = {}
    /\ percall = NoFiles
    /\ scripts = WriteText(NoFiles, ScriptPath(1), ScriptText(1, config, hf_token))

\* ... with any manifest in the folder and any threshold configured.
InitOrganise ==
    /\ InitOrganiseProgram
    /\ score_threshold \in Thresholds
    /\ tree = SpeakerTree(1)
    /\ \E present \in BOOLEAN, n \in 0..MaxCalls :
        \E keys \in KeyInputs(n), payloads \in [1..n -> PayloadInputs] :
            /\ ~present => n = 0
            /\ manifest = [u \in Units |->
                    IF u = 1 /\ present THEN ManifestOf(keys, payloads) ELSE NoManifest]

NextOrganise == Organise

SpecOrganise == InitOrganise /\ [][NextOrganise]_vars

\* ------------------------------------- organise_results on the unit's files

\* The calls of the unit, by the stem of their names.
CopyStems == {1, 2}

\* What the unit directory may hold: for the first call a recording, each of
\* its siblings, a file named by the stem alone and a directory named like a
\* sibling; for the second call a recording and a transcript.
CopyNodeInputs ==
    {Node(1, x, "file", 1) : x \in {".wav", ".vtt", ".srt", ".txt", ".json", ""}}
    \cup {Node(1, ".txt", "dir", 1)}
    \cup {Node(2, x, "file", 1) : x \in {".wav", ".vtt"}}

\* One name is one file or one directory.
CopyNodeSets ==
    {nodes \in SUBSET CopyNodeInputs :
        \A f, g \in nodes : (f.stem = g.stem /\ f.suffix = g.suffix) => f = g}

\* The entries the scoring step writes for the transcript of a call: a score
\* on either side of the threshold, the audio file named by the recording it
\* found or by the stem alone; and an entry without "audio_file".
CopyEntries(stem) ==
    {Entry(Name(stem, ".vtt"), TRUE, h, a) :
        h \in {2 * DEFAULT_SCORE_THRESHOLD - 2, 2 * DEFAULT_SCORE_THRESHOLD},
        a \in {Name(stem, ".wav"), Name(stem, ""), NoName}}

\* The manifests of the unit: none, or one with an entry for some of the calls.
CopyManifests ==
    {NoManifest, Manifest(<<>>)}
    \cup {Manifest(<<e>>) : e \in CopyEntries(1) \cup CopyEntries(2)}
    \cup {Manifest(<<e1, e2>>) : e1 \in CopyEntries(1), e2 \in CopyEntries(2)}

\* run() about to organise its only folder, with any of these files in the
\* folder and any of these manifests.
InitCopy ==
    /\ InitOrganiseProgram
    /\ score_threshold = DEFAULT_SCORE_THRESHOLD
    /\ \E nodes \in CopyNodeSets : tree = [e \in {1} |-> DirEntry(FALSE, nodes)]
    /\ \E m \in CopyManifests :
            manifest = [u \in Units |-> IF u = 1 THEN m ELSE NoManifest]

NextCopy == Organise

SpecCopy == InitCopy /\ [][NextCopy]_vars

\* -------------------------------------- create_slurm_job_script on its inputs

\* The credentials and configurations drawn as inputs. A partition name is
\* given by its segments: "gpu-" and a device name, up to three of them.
Tokens == {"hf_A", "hf_B"}

PartitionInputs ==
    UNION {[1..n -> {"gpu-", "rtx6k"}] : n \in 1..3}

ConfigInputs ==
    [partition : PartitionInputs, account : {"", "lab"}, qos : {<<>>, <<"normal">>}]

\* A first invocation on one or two speaker folders, with any credential and
\* any configuration.
InitScript ==
    /\ InitProgram
    /\ InitOutputs
    /\ hf_token \in Tokens
    /\ config \in ConfigInputs
    /\ base_exists = TRUE
    /\ tree \in {SpeakerTree(1), SpeakerTree(2)}
    /\ manifest = [u \in Units |-> NoManifest]

\* Invocations, one after the other, against a scheduler that takes no job.
NextScript ==
    \/ Discover
    \/ Generate
    \/ SubmitRejected
    \/ MonitorEnter
    \/ Organise
    \/ Reinvoke

SpecScript == InitScript /\ [][NextScript]_vars

\* ------------------------------------ discover_speaker_folders on its inputs

\* What may lie below a directory of the base directory: nothing, a text
\* file, a recording, a recording in a subdirectory, a recording with an
\* upper-case suffix, or a subdirectory named like a recording.
NodeSetInputs ==
    {{},
     {Node(1, ".txt", "file", 1)},
     {Node(1, ".wav", "file", 1)},
     {Node(1, ".mp3", "file", 2)},
     {Node(1, ".WAV", "file", 1)},
     {Node(1, ".wav", "dir", 1)}}

\* The entries of the base directory: files and directories, hidden or not.
EntryInputs ==
    {FileEntry(h) : h \in BOOLEAN}
    \cup {DirEntry(h, nodes) : h \in BOOLEAN, nodes \in NodeSetInputs}

\* run() about to start on a base directory with any of these entries under
\* any of the names.
InitDiscover ==
    /\ InitProgram
    /\ InitOutputs
    /\ hf_token = "hf_A"
    /\ config = DefaultConfig
    /\ base_exists = TRUE
    /\ \E names \in SUBSET Units : tree \in [names -> EntryInputs]
    /\ manifest = [u \in Units |-> NoManifest]

NextDiscover == Discover

SpecDiscover == InitDiscover /\ [][NextDiscover]_vars

\* ------------------------------------------- the run of a generated script

orchVars == <<progVars, callVars, schedVars, fsVars, procVars, cfgVars>>

\* Lines 133-138: transcribe_calls.py on the speaker folder.
JobTranscribe ==
    /\ script_run.pc = "transcribe"
    /\ \E ok \in BOOLEAN :
        script_run' = Step([script_run EXCEPT !.transcribe_runs = @ + 1, !.transcribe_ok = ok],
                    ok, "serve")
    /\ UNCHANGED orchVars

\* Lines 141-159: the inner shell starts "ollama serve" in the background.
JobServe ==
    /\ script_run.pc = "serve"
    /\ script_run' = [script_run EXCEPT !.serve_starts = @ + 1, !.service = "running",
                          !.pc = "check_started"]
    /\ UNCHANGED orchVars

\* Lines 162-164 and 197-199: "kill -0": the trap is set for a live service,
\* and the script exits for one that is gone.
JobCheckStarted ==
    /\ script_run.pc = "check_started"
    /\ script_run' = IF script_run.service = "running"
              THEN [script_run EXCEPT !.trap = TRUE, !.pc = "probe"]
              ELSE Leave(script_run, 1)
    /\ UNCHANGED orchVars

\* Lines 168-172: one probe of the readiness endpoint.
JobProbe ==
    /\ script_run.pc = "probe"
    /\ \E ready \in ServiceAnswers(script_run.service) :
        script_run' = [script_run EXCEPT !.probes = Bump(@, READINESS_ATTEMPTS + 1),
                                         !.ready = ready,
                                         !.pc = AfterProbe(ready)]
    /\ UNCHANGED orchVars

\* Lines 173-175: "sleep 5" after a failed probe.
JobWait ==
    /\ script_run.pc = "wait"
    /\ script_run' = [script_run EXCEPT !.waits = Bump(@, READINESS_ATTEMPTS + 1),
                          !.pc = AfterWait(script_run.probes)]
    /\ UNCHANGED orchVars

\* Lines 179-184: "ollama list | grep -q": is the model there.
JobModelCheck ==
    /\ script_run.pc = "model_check"
    /\ \E present \in ServiceAnswers(script_run.service) :
        script_run' = [script_run EXCEPT !.model_checks = @ + 1, !.model_present = present,
                           !.pc = IF present THEN "list" ELSE "pull"]
    /\ UNCHANGED orchVars

\* Line 181: "ollama pull".
JobPull ==
    /\ script_run.pc = "pull"
    /\ \E ok \in ServiceAnswers(script_run.service) :
        script_run' = Step([script_run EXCEPT !.pulls = @ + 1], ok, "list")
    /\ UNCHANGED orchVars

\* Line 187: "ollama list".
JobList ==
    /\ script_run.pc = "list"
    /\ \E ok \in ServiceAnswers(script_run.service) :
        script_run' = Step([script_run EXCEPT !.lists = @ + 1], ok, "warmup")
    /\ UNCHANGED orchVars

\* Lines 191-192: the warm-up request.
JobWarmup ==
    /\ script_run.pc = "warmup"
    /\ \E ok \in ServiceAnswers(script_run.service) :
        script_run' = Step([script_run EXCEPT !.warmups = @ + 1], ok, "analyze")
    /\ UNCHANGED orchVars

\* Line 196 and 200-201: analyze_with_ollama.py; with it the inner shell ends,
\* which runs the trap.
JobAnalyze ==
    /\ script_run.pc = "analyze"
    /\ \E ok \in BOOLEAN :
        LET j == Step([script_run EXCEPT !.analyze_runs = @ + 1], ok, "completed")
        IN script_run' = [j EXCEPT !.service = ServiceAtExit(j.trap, j.service)]
    /\ UNCHANGED orchVars

\* Line 203: the last line of the script.
JobCompleted ==
    /\ script_run.pc = "completed"
    /\ script_run' = Leave(script_run, 0)
    /\ UNCHANGED orchVars

\* The service ends by itself.
ServiceDies ==
    /\ script_run.service = "running"
    /\ script_run' = [script_run EXCEPT !.service = "dead"]
    /\ UNCHANGED orchVars

JobScript ==
    \/ JobTranscribe
    \/ JobServe
    \/ JobCheckStarted
    \/ JobProbe
    \/ JobWait
    \/ JobModelCheck
    \/ JobPull
    \/ JobList
    \/ JobWarmup
    \/ JobAnalyze
    \/ JobCompleted

\* The job of the only speaker folder, from the first command of its script.
InitJob ==
    /\ InitProgram
    /\ InitOutputs
    /\ hf_token = "hf_A"
    /\ config = DefaultConfig
    /\ base_exists = TRUE
    /\ tree = SpeakerTree(1)
    /\ manifest = [u \in Units |-> NoManifest]

NextJob == JobScript \/ ServiceDies

SpecJob == InitJob /\ [][NextJob]_vars

\* The shell always runs its next command.
SpecJobLive == InitJob /\ [][NextJob]_vars /\ WF_vars(JobScript)

\* ------------------------------------------ organise_results, pass after pass

\* The command is given again, with any --score-threshold.
ReinvokeWithThreshold ==
    /\ exit_code # <<>>
    /\ score_threshold' \in Thresholds
    /\ pc' = "start"
    /\ speaker_folders' = <<>>
    /\ job_ids' = <<>>
    /\ idx' = 1
    /\ remaining' = <<>>
    /\ probe_idx' = 1
    /\ polls' = 0
    /\ sleeps' = 0
    /\ generated' = [u \in Units |-> 0]
    /\ submits' = [u \in Units |-> 0]
    /\ organised' = [u \in Units |-> 0]
    /\ outcome' = [u \in Units |-> "none"]
    /\ exit_code' = <<>>
    /\ UNCHANGED <<schedVars, fsVars, cancelled, cfgVars, jobVars>>

\* Between two invocations the scoring step is run again on the folder and
\* saves a manifest with another score.
Rescore ==
    /\ exit_code # <<>>
    /\ \E m \in {StaleManifest, FreshManifest} :
        /\ \E u \in DOMAIN tree : manifest[u].exists /\ manifest[u] # m
        /\ manifest' = [u \in Units |->
                IF u \in DOMAIN tree /\ manifest[u].exists THEN m ELSE manifest[u]]
    /\ UNCHANGED <<base_exists, tree, roots, routed, percall, scripts>>
    /\ UNCHANGED <<progVars, callVars, schedVars, procVars, cfgVars, jobVars>>

\* One speaker folder with the manifest of an earlier scoring.
InitPasses ==
    /\ InitProgram
    /\ InitOutputs
    /\ hf_token = "hf_A"
    /\ config = DefaultConfig
    /\ base_exists = TRUE
    /\ tree = SpeakerTree(1)
    /\ \E m \in {StaleManifest, FreshManifest} :
        manifest = [u \in Units |-> IF u = 1 THEN m ELSE NoManifest]

\* Invocations, one after the other, against a scheduler that takes no job.
NextPasses ==
    \/ Discover
    \/ Generate
    \/ SubmitRejected
    \/ MonitorEnter
    \/ Organise
    \/ ReinvokeWithThreshold
    \/ Rescore

SpecPasses == InitPasses /\ [][NextPasses]_vars

\* ------------------------------------- scoring, then organise_results

\* The speaker folder: the recording of call 1 with any audio extension and
\* its transcript, and possibly a second call.
ScoreNodeSets ==
    {{Node(1, ext, "file", 1), Node(1, ".vtt", "file", 1)} \cup second :
        ext \in AUDIO_EXTENSIONS,
        second \in {{}} \cup {{Node(2, e2, "file", 1), Node(2, ".vtt", "file", 1)} :
                                e2 \in {".wav", ".mp4"}}}

\* The scoring step of a running job analyses some transcripts of its folder
\* and, if any succeeded, saves the manifest.
JobScores ==
    \E job \in queue :
        LET unit == UnitOfJob(job)
        IN /\ ~manifest[unit].exists
           /\ \E analysed \in SUBSET {1, 2},
                 score2 \in {2 * DEFAULT_SCORE_THRESHOLD - 2, 2 * DEFAULT_SCORE_THRESHOLD} :
                /\ AnalyzeSpeakerFolder(tree[unit], analysed, score2) # <<>>
                /\ manifest' = [manifest EXCEPT ![unit] =
                        Manifest(AnalyzeSpeakerFolder(tree[unit], analysed, score2))]
           /\ UNCHANGED <<base_exists, tree, roots, routed, percall, scripts>>
           /\ UNCHANGED <<progVars, callVars, schedVars, procVars, cfgVars, jobVars>>

InitScore ==
    /\ InitProgram
    /\ InitOutputs
    /\ hf_token = "hf_A"
    /\ config = DefaultConfig
    /\ base_exists = TRUE
    /\ \E nodes \in ScoreNodeSets : tree = [e \in {1} |-> DirEntry(FALSE, nodes)]
    /\ manifest = [u \in Units |-> NoManifest]

NextScore ==
    \/ Discover
    \/ Generate
    \/ SubmitAccepted
    \/ MonitorEnter
    \/ Poll
    \/ MonitorReturn
    \/ MonitorWait
    \/ Organise
    \/ JobScores
    \/ JobLeaves

SpecScore == InitScore /\ [][NextScore]_vars

\* ============================================================== properties

Folders == Range(speaker_folders)

\* run() has left the submission loop normally.
SubmissionOver == pc \in {"monitor", "poll", "organise", "done"}

\* The loop body of lines 307-310 has completed for unit u.
Processed(u) == submits[u] > 0 /\ ~(pc = "raised_in_submit" /\ speaker_folders[idx] = u)

\* The scheduler accepted, or rejected, the submission of unit u.
Accepted(u) == Processed(u) /\ u \in Range(sbatch_jobs)
Rejected(u) == Processed(u) /\ u \notin Range(sbatch_jobs)

\* A step of the orchestrator (not of the scheduler or of a job).
ProgramStep == progVars' # progVars \/ callVars' # callVars

\* The step in which a submission is rejected.
RejectionStep == pc = "submit" /\ submits' # submits /\ sbatch_jobs' = sbatch_jobs

\* The identifiers the scheduler printed for the accepted units, in order.
AcceptedIds == [n \in 1..Cardinality({u \in Units : Accepted(u)}) |-> JobId(n)]

\* C1: a rejected submission does not stop the run: the step that sees the
\* rejection goes on to the next unit (or to monitoring after the last one);
\* when the submission loop is over every discovered unit had its script
\* generated and was submitted; monitoring works on exactly the identifiers of
\* the accepted units; and when run() returns every accepted unit has been
\* organised.
C1_SubmissionFailureIsolated ==
    /\ [](SubmissionOver =>
            \A u \in Folders : generated[u] = 1 /\ submits[u] = 1)
    /\ [](pc \in {"monitor", "poll"} =>
            /\ job_ids = AcceptedIds
            /\ Range(remaining) \subseteq Range(job_ids)
            /\ probe_idx <= Len(job_ids) + 1)
    /\ []((pc = "done" /\ speaker_folders # <<>>) =>
            \A u \in Folders : Accepted(u) => organised[u] = 1)
    /\ [][RejectionStep =>
            /\ pc' = IF idx < Len(speaker_folders) THEN "generate" ELSE "monitor"
            /\ idx' = IF idx < Len(speaker_folders) THEN idx + 1 ELSE 1]_vars

\* Unit 2 of three was rejected, units 1 and 3 were accepted, monitored and
\* organised.
C1_Witness ==
    /\ pc = "done"
    /\ Len(speaker_folders) >= 3
    /\ Rejected(2)
    /\ Accepted(1) /\ Accepted(3)
    /\ job_ids = <<JobId(1), JobId(2)>>
    /\ polls >= 2
    /\ organised[1] = 1 /\ organised[3] = 1

\* C2: job_ids holds exactly one entry for every unit processed so far whose
\* submission was accepted, namely the identifier printed for it, and none for
\* a rejected unit; it is never longer than the list of discovered units; the
\* step that sees a rejection leaves it unchanged and does not end the run.
C2_OneJobIdPerAcceptedUnit ==
    /\ [](/\ job_ids = AcceptedIds
          /\ \A k \in 1..Len(job_ids) : Accepted(sbatch_jobs[k])
          /\ \A k, l \in 1..Len(sbatch_jobs) :
                sbatch_jobs[k] = sbatch_jobs[l] => k = l
          /\ Len(job_ids) <= Len(speaker_folders)
          /\ Len(job_ids) + Cardinality({u \in Units : Rejected(u)})
                = Cardinality({u \in Units : Processed(u)}))
    /\ [][RejectionStep =>
            /\ job_ids' = job_ids
            /\ pc' \in {"generate", "monitor"}]_vars

\* Two units accepted, one rejected, and the run goes on.
C2_Witness ==
    /\ pc = "monitor"
    /\ Len(job_ids) = 2
    /\ \E u \in Folders : Rejected(u)


\* C3: after organise_results of a unit, an entry's call has a directory under
\* "needs attention" exactly when an entry of that call has a score strictly
\* below the threshold, and one under "reviewed" exactly when an entry of that
\* call has a score at or above it (a missing score counts as 0); nothing else
\* is routed. Scores are the numbers of the manifest, in half points.
C3_RoutingIsThresholdFunction ==
    \A u \in Folders :
        (organised[u] = 1 /\ manifest[u].exists) =>
            LET es == manifest[u].entries
                sc2(k) == IF es[k].payload.has_score THEN es[k].payload.score2 ELSE 0
                below(k) == sc2(k) < 2 * score_threshold
                at(root, k) == [unit |-> u, root |-> root, call_id |-> CallId(es[k])]
            IN /\ \A k \in 1..Len(es) :
                    /\ below(k) => at("needs_further_attention", k) \in routed
                    /\ ~below(k) => at("reviewed", k) \in routed
               /\ \A t \in routed :
                    t.unit = u =>
                        \E k \in 1..Len(es) :
                            /\ t.call_id = CallId(es[k])
                            /\ t.root = IF below(k)
                                        THEN "needs_further_attention"
                                        ELSE "reviewed"

\* A score equal to the threshold was routed to "reviewed" and a score half a
\* point below it to "needs attention".
C3_Witness ==
    /\ organised[1] = 1
    /\ manifest[1].exists
    /\ Len(manifest[1].entries) = 2
    /\ manifest[1].entries[1].payload.has_score
    /\ manifest[1].entries[1].payload.score2 = 2 * score_threshold
    /\ manifest[1].entries[2].payload.has_score
    /\ manifest[1].entries[2].payload.score2 = 2 * score_threshold - 1
    /\ score_threshold = DEFAULT_SCORE_THRESHOLD
    /\ [unit |-> 1, root |-> "reviewed", call_id |-> CallId(manifest[1].entries[1])]
            \in routed
    /\ [unit |-> 1, root |-> "needs_further_attention",
        call_id |-> CallId(manifest[1].entries[2])] \in routed


\* monitor_jobs has returned.
MonitorOver == pc \in {"organise", "done"}

\* C4: monitor_jobs has not returned while a recorded identifier still has an
\* entry in the active queue.
C4_NoReturnWhileActive ==
    MonitorOver => \A k \in 1..Len(job_ids) : job_ids[k] \notin queue

\* C5: when the first cycle has queried every identifier and none was reported
\* active, every identifier has been queried exactly once, and the next step
\* of monitor_jobs is its return, with no wait; a return with no wait behind it
\* has issued one query per identifier.
FirstCycleAllInactive ==
    /\ pc = "poll"
    /\ sleeps = 0
    /\ probe_idx > Len(job_ids)
    /\ remaining = <<>>

C5_OneCycleWhenAllInactive ==
    /\ []((pc = "poll" /\ sleeps = 0) => polls = probe_idx - 1)
    /\ []((MonitorOver /\ job_ids # <<>> /\ sleeps = 0) => polls = Len(job_ids))
    /\ [][(FirstCycleAllInactive /\ ProgramStep) =>
            /\ pc' = "organise"
            /\ polls' = Len(job_ids)
            /\ sleeps' = 0]_vars

\* Three identifiers, each queried once, and monitor_jobs has returned.
C5_Witness ==
    /\ pc = "organise"
    /\ Len(job_ids) = 3
    /\ polls = 3
    /\ sleeps = 0

\* C6: with no identifier recorded monitor_jobs issues no status query and
\* never waits: from its first statement it returns in one step; and no
\* identifier is recorded when the scheduler accepted nothing.
C6_EmptySetReturnsWithoutPolling ==
    /\ [](job_ids = <<>> => (polls = 0 /\ sleeps = 0 /\ pc # "poll"))
    /\ [](sbatch_jobs = <<>> => job_ids = <<>>)
    /\ [][(pc = "monitor" /\ job_ids = <<>> /\ ProgramStep) =>
            (pc' = "organise" /\ polls' = 0)]_vars

\* Every submission of three was rejected and monitor_jobs has returned.
C6_Witness ==
    /\ pc = "organise"
    /\ Len(speaker_folders) = 3
    /\ \A u \in Folders : Rejected(u)
    /\ job_ids = <<>>
    /\ polls = 0

\* C7: monitor_jobs, once entered, eventually returns and run() goes on to
\* organisation; while it runs its only exit is that return.
C7_MonitorTerminates ==
    /\ (pc \in {"monitor", "poll"}) ~> (pc = "organise")
    /\ [][(pc \in {"monitor", "poll"}) => (pc' \in {"monitor", "poll", "organise"})]_vars

\* monitor_jobs has waited at least once and then returned.
C7_Witness ==
    /\ pc = "organise"
    /\ sleeps >= 1
    /\ job_ids # <<>>
    /\ queue = {}

\* C8: a unit is submitted only after its script was generated; monitoring
\* starts only after every unit was submitted; a unit is organised only after
\* monitor_jobs has returned, that is with no identifier recorded or after a
\* cycle that queried every identifier and reported none active.
C8_StageOrdering ==
    /\ [](\A u \in Units : submits[u] <= generated[u])
    /\ []((pc \in {"monitor", "poll"} \/ polls > 0) =>
            \A u \in Folders : submits[u] = 1)
    /\ []((\E u \in Units : organised[u] > 0) =>
            /\ pc \in {"organise", "done", "raised_in_organise"}
            /\ \A u \in Folders : submits[u] = 1
            /\ \/ job_ids = <<>>
               \/ (remaining = <<>> /\ probe_idx = Len(job_ids) + 1 /\ polls >= Len(job_ids)))
    /\ [][\A u \in Units :
            /\ submits'[u] # submits[u] => generated[u] = 1
            /\ organised'[u] # organised[u] => pc = "organise"]_vars

\* Units were organised after a monitoring that needed a second cycle.
C8_Witness ==
    /\ pc = "done"
    /\ Len(job_ids) >= 2
    /\ sleeps >= 1
    /\ \A u \in Folders : organised[u] = 1

\* C9: no record of a unit whose submission was rejected is ever routed.
C9_RejectedUnitNeverRouted ==
    \A u \in Folders : Rejected(u) => \A t \in routed : t.unit # u

\* C10: every stage handles a unit at most once and in order (generated, then
\* submitted, then organised), a stage never handles a unit that a later stage
\* has already handled, and when run() returns every discovered unit is Routed,
\* Skipped or SubmissionFailed.
C10_AtMostOncePerStage ==
    /\ [](\A u \in Units :
            /\ generated[u] <= 1
            /\ submits[u] <= generated[u]
            /\ organised[u] <= submits[u]
            /\ (outcome[u] # "none") = (organised[u] = 1)
            /\ (generated[u] > 0 => u \in Folders))
    /\ []((pc = "done") =>
            \A u \in Folders : outcome[u] \in {"Routed", "Skipped"} \/ Rejected(u))
    /\ [][\A u \in Units :
            /\ generated'[u] # generated[u] => (submits[u] = 0 /\ organised[u] = 0)
            /\ submits'[u] # submits[u] => organised[u] = 0
            /\ outcome[u] # "none" => outcome'[u] = outcome[u]]_vars

\* run() returned with one unit Routed, one Skipped and one whose submission
\* was rejected.
C10_Witness ==
    /\ pc = "done"
    /\ \E u, v, w \in Folders :
        /\ outcome[u] = "Routed" /\ Accepted(u)
        /\ outcome[v] = "Skipped" /\ Accepted(v)
        /\ Rejected(w)
    /\ \A u \in Folders : generated[u] = 1 /\ submits[u] = 1 /\ organised[u] = 1

\* The unit whose organise_results call is next.
UnitToOrganise == FoldersToOrganise(speaker_folders)[idx]

\* Everything organise_results might write stays as it is.
NothingRouted == roots' = roots /\ routed' = routed /\ percall' = percall

\* C11: organise_results of a unit without analysis_results.json makes no
\* destination directory and copies or writes no file, and returns: the loop
\* goes on to the next unit, so that when run() returns every discovered unit
\* has had its organise_results call, and a unit that was skipped has no
\* destination root and no per-call directory.
C11_MissingManifestSkipped ==
    /\ [][(pc = "organise" /\ ~manifest[UnitToOrganise].exists /\ ProgramStep) =>
            /\ NothingRouted
            /\ scripts' = scripts /\ manifest' = manifest /\ tree' = tree
            /\ outcome'[UnitToOrganise] = "Skipped"
            /\ organised'[UnitToOrganise] = 1
            /\ pc' = IF idx < Len(speaker_folders) THEN "organise" ELSE "done"
            /\ idx < Len(speaker_folders) => idx' = idx + 1]_vars
    /\ [](\A u \in Units : outcome[u] = "Skipped" =>
            /\ \A r \in roots : r.unit # u
            /\ \A t \in DOMAIN percall : t.unit # u)
    /\ []((pc = "done" /\ speaker_folders # <<>>) =>
            \A u \in Folders : organised[u] = 1 /\ outcome[u] \in {"Skipped", "Routed"})

\* A unit without manifest was skipped and a later unit was routed.
C11_Witness ==
    /\ pc = "done"
    /\ \E u, v \in Folders :
            /\ u < v
            /\ outcome[u] = "Skipped"
            /\ outcome[v] = "Routed"
            /\ \E t \in routed : t.unit = v

\* The files of the unit that belong to an entry: the one its audio name
\* names, and those named by the call identifier and a sibling suffix.
FilesOfCall(entry, unit) ==
    {f \in FilesOf(tree[unit]) :
        \/ f = AudioName(entry)
        \/ f.stem = CallId(entry) /\ f.ext \in Range(SiblingSuffixes)}

\* C12: once organise_results has returned for a unit with a manifest, every
\* entry of the manifest has its per-call directory, whatever files the unit
\* holds; the directory holds exactly the files of the unit that are the
\* entry's audio file or a sibling of the call, and the manifest of that entry
\* alone; there is no other per-call directory; and the call returned.
C12_PerCallDirectoryContents ==
    \A u \in Units : (organised[u] > 0 /\ manifest[u].exists) =>
        /\ outcome[u] = "Routed"
        /\ pc \in {"organise", "done"}
        /\ \A k \in 1..Len(manifest[u].entries) :
            LET entry == manifest[u].entries[k]
                d == TargetDir(u, entry, score_threshold)
            IN /\ d \in routed
               /\ d \in DOMAIN percall
               /\ percall[d].entry = entry
               /\ percall[d].files = FilesOfCall(entry, u)
        /\ \A d \in DOMAIN percall : d.unit = u =>
            \E k \in 1..Len(manifest[u].entries) :
                d = TargetDir(u, manifest[u].entries[k], score_threshold)

\* A call was routed whose recording exists and whose transcript does not: its
\* directory holds the recording alone; and another call's directory holds
\* its recording and its transcript.
C12_Witness ==
    /\ organised[1] = 1
    /\ Len(manifest[1].entries) = 2
    /\ \E d \in DOMAIN percall :
            /\ d.call_id = 1
            /\ percall[d].files = {Name(1, ".wav")}
            /\ Name(1, ".srt") \notin FilesOf(tree[1])
    /\ \E d \in DOMAIN percall :
            /\ d.call_id = 2
            /\ percall[d].files = {Name(2, ".wav"), Name(2, ".vtt")}

\* C13: the text of a script on disk does not depend on the credential: it is
\* the text create_slurm_job_script gives for the same unit and configuration
\* with any other credential.
C13_CredentialNotInScript ==
    \A p \in DOMAIN scripts :
        \A token \in Tokens : scripts[p] = ScriptText(p.name, config, token)

\* C14: a script is written at the path its unit's name gives and holds the
\* text its unit and the configuration give; generating the script of a unit
\* whose script is on disk, with the same configuration, leaves every script
\* file as it is, and there is never more than one script file per folder.
C14_GenerationIdempotent ==
    /\ [](\A p \in DOMAIN scripts :
            /\ p = ScriptPath(p.name)
            /\ scripts[p] = ScriptText(p.name, config, hf_token))
    /\ [](Cardinality(DOMAIN scripts) <= Cardinality(DOMAIN tree))
    /\ [][(pc = "generate" /\ ProgramStep) =>
            /\ ScriptPath(speaker_folders[idx]) \in DOMAIN scripts'
            /\ ScriptPath(speaker_folders[idx]) \in DOMAIN scripts => scripts' = scripts
            /\ DOMAIN scripts' = DOMAIN scripts \cup {ScriptPath(speaker_folders[idx])}]_vars

\* A later invocation has generated the script of the first folder again: the
\* script of the second folder is on disk and not yet generated this time.
C14_Witness ==
    /\ pc = "submit"
    /\ idx = 1
    /\ generated[1] = 1
    /\ generated[2] = 0
    /\ DOMAIN scripts = {ScriptPath(1), ScriptPath(2)}

\* The QoS the claim states for a configuration.
StatedQos(cfg) ==
    IF cfg.qos # <<>> THEN cfg.qos
    ELSE IF cfg.account # "" /\ StartsWith(cfg.partition, "gpu-")
         THEN <<cfg.account, "-">> \o cfg.partition
         ELSE <<>>

\* C15: the QoS directive of a script is the explicit QoS when one is
\* configured; otherwise, with an account and a partition that begins with
\* "gpu-", the account, a hyphen and the partition name unchanged; otherwise
\* there is none.
C15_QosDerivation ==
    \A p \in DOMAIN scripts : scripts[p].qos_line = StatedQos(config)

\* The folders the claim states for a tree: the directories without a leading
\* dot below which there is a file with an audio extension.
StatedFolders(t) ==
    {e \in DOMAIN t :
        /\ t[e].is_dir
        /\ ~t[e].hidden
        /\ \E f \in t[e].nodes : f.kind = "file" /\ Lower(f.suffix) \in AUDIO_EXTENSIONS}

\* C16: once discovery has run, the list of speaker folders holds exactly the
\* stated folders of the tree, in strictly ascending order of name (hence
\* without duplicates), whatever the order in which the directory was listed.
C16_DiscoveryExact ==
    pc # "start" =>
        /\ Range(speaker_folders) = StatedFolders(tree)
        /\ \A k, l \in 1..Len(speaker_folders) : k < l => speaker_folders[k] < speaker_folders[l]

\* C17: with the base directory missing, the first step of the run ends it
\* with an exit code other than 0, makes no directory, and discovers,
\* generates and submits nothing.
C17_MissingBaseDirFatal ==
    [][(pc = "start" /\ ~base_exists /\ ProgramStep) =>
            /\ exit_code' # <<>>
            /\ exit_code' # ExitCode("returned")
            /\ base_exists' = base_exists
            /\ speaker_folders' = <<>>
            /\ generated' = generated
            /\ submits' = submits]_vars

\* The generation of the script of unit u failed: the call was made and the
\* script is not on disk.
GenerationFailed(u) == generated[u] > 0 /\ ScriptPath(u) \notin DOMAIN scripts

\* C18: a run in which the generation of some unit's script failed still ends
\* normally, with every folder's script generated, and every folder whose
\* script was written submitted.
C18_GenerationFailureIsolated ==
    (exit_code # <<>> /\ \E u \in Folders : GenerationFailed(u)) =>
        /\ exit_code = ExitCode("returned")
        /\ \A v \in Folders :
            /\ generated[v] = 1
            /\ ~GenerationFailed(v) => submits[v] = 1

\* C19: a run in which organise_results met a filesystem failure for some unit
\* still ends with exit code 0 and with every folder organised.
C19_OrganiseFailureIsolated ==
    (exit_code # <<>> /\ \E u \in Folders : outcome[u] = "Raised") =>
        /\ exit_code = ExitCode("returned")
        /\ \A v \in Folders : organised[v] = 1

\* A step with no status query, no wait, no organise_results call, no cancel
\* command and nothing routed.
Quiet ==
    /\ polls' = polls
    /\ sleeps' = sleeps
    /\ organised' = organised
    /\ cancelled' = cancelled
    /\ NothingRouted

\* What the orchestrator does after it ended: nothing.
Halted == pc' = pc /\ exit_code' = exit_code /\ Quiet

\* C20: an interrupt while monitor_jobs polls or waits ends the process with
\* exit code 130, at a point where no unit has been organised; from then on
\* there is no status query and no organise_results call, and nothing is
\* routed; and no cancel command is ever issued for a job, which the
\* interrupt leaves in the queue.
C20_InterruptDuringMonitoring ==
    /\ [][(pc \in {"monitor", "poll"} /\ pc' = "interrupted") =>
            /\ exit_code' = <<130>>
            /\ \A u \in Units : organised[u] = 0
            /\ queue' = queue
            /\ Quiet]_vars
    /\ [][pc = "interrupted" => Halted]_vars
    /\ [](pc = "interrupted" => exit_code = <<130>>)
    /\ [](cancelled = {})

\* The run was interrupted during a wait, with a job still in the queue.
C20_Witness ==
    /\ pc = "interrupted"
    /\ sleeps >= 1
    /\ remaining # <<>>
    /\ \E job \in Range(job_ids) : job \in queue
    /\ \A u \in Units : organised[u] = 0

\* C21: submit_slurm_job returns an identifier exactly when the submission
\* command exits with code zero, the identifier is then the last word of the
\* command's output, and no output of an accepted submission makes it raise.
C21_SubmitReturnsIdIffAccepted ==
    [][(pc = "submit") =>
          /\ pc' # "raised_in_submit"
          /\ (sbatch_jobs' # sbatch_jobs) <=> (job_ids' # job_ids)
          /\ (job_ids' # job_ids) =>
                job_ids' = Append(job_ids, JobId(Len(sbatch_jobs')))]_vars

\* The readiness loop is behind the script.
PollingEnded ==
    /\ script_run.pc \notin {"probe", "wait"}
    /\ script_run.ready \/ script_run.probes = READINESS_ATTEMPTS

\* C22: in a generated script the transcription runs once and ends with
\* success before the service is started, and the scoring runs only after the
\* service was started, the readiness loop ended, the model was looked for
\* (and pulled when absent) and one warm-up request was sent; after a failed
\* transcription the scoring never runs.
C22_ScriptStepOrder ==
    /\ script_run.transcribe_runs <= 1
    /\ script_run.serve_starts <= 1
    /\ script_run.analyze_runs <= 1
    /\ (script_run.pc # "transcribe") => script_run.transcribe_runs = 1
    /\ (script_run.serve_starts > 0) =>
            script_run.transcribe_runs = 1 /\ script_run.transcribe_ok
    /\ (script_run.pulls > 0) =>
            script_run.model_checks = 1 /\ ~script_run.model_present
    /\ (script_run.analyze_runs > 0) =>
            /\ script_run.serve_starts = 1
            /\ PollingEnded
            /\ script_run.model_checks = 1
            /\ script_run.model_present \/ script_run.pulls = 1
            /\ script_run.warmups = 1
    /\ (script_run.transcribe_runs = 1 /\ ~script_run.transcribe_ok) =>
            /\ script_run.pc = "exited"
            /\ script_run.analyze_runs = 0

C22_Witness ==
    /\ script_run.pc = "exited"
    /\ script_run.status = <<0>>
    /\ script_run.analyze_runs = 1
    /\ script_run.pulls = 1
    /\ script_run.probes = 3

\* C23: once the service was started, no exit of the script leaves it running.
C23_ServiceEndsWithScript ==
    (script_run.pc \in {"completed", "exited"} /\ script_run.serve_starts > 0) =>
        script_run.service # "running"

C23_Witness ==
    /\ script_run.pc = "exited"
    /\ script_run.status = <<1>>
    /\ script_run.pulls = 1
    /\ script_run.warmups = 0
    /\ script_run.service = "killed"

\* C24: the readiness loop probes at most 12 times, waits once after every
\* failed probe, probes no more after a successful probe, and is always left.
C24_ReadinessPollingBounded ==
    /\ [](script_run.probes <= READINESS_ATTEMPTS)
    /\ [](script_run.ready => script_run.pc \notin {"probe", "wait"})
    /\ []((script_run.pc = "probe") => script_run.waits = script_run.probes)
    /\ []((script_run.pc = "wait") => script_run.waits + 1 = script_run.probes)
    /\ (script_run.pc \in {"probe", "wait"}) ~>
            (script_run.pc \notin {"probe", "wait"})

C24_Witness ==
    /\ script_run.pc = "model_check"
    /\ ~script_run.ready
    /\ script_run.probes = READINESS_ATTEMPTS
    /\ script_run.waits = READINESS_ATTEMPTS

\* C25: a unit whose job of this invocation was accepted but has written no
\* manifest ends Skipped and nothing of it is routed, whatever manifest an
\* earlier invocation left in its directory.
C25_RoutedOnlyFromOwnJob ==
    [][(/\ pc = "organise"
        /\ organised' # organised
        /\ Accepted(UnitToOrganise)
        /\ manifest[UnitToOrganise] # FreshManifest) =>
          /\ outcome'[UnitToOrganise] = "Skipped"
          /\ NothingRouted]_vars

\* C26: whatever passes of organise_results a unit has had, no call has a
\* per-call directory under both destination roots; and a pass repeated with
\* the same manifest and threshold changes nothing in the destination trees.
C26_OneRootPerCall ==
    /\ [](\A d1, d2 \in routed :
            (d1.unit = d2.unit /\ d1.call_id = d2.call_id) => d1.root = d2.root)
    /\ [][(pc = "organise" /\ organised' # organised) =>
            /\ DestinationRoots(UnitToOrganise, manifest[UnitToOrganise].exists)
                    \subseteq roots'
            /\ TargetDirs(UnitToOrganise, manifest[UnitToOrganise].entries,
                          score_threshold) \subseteq routed'
            /\ OrganiseEntries(percall', UnitToOrganise,
                               manifest[UnitToOrganise].entries, score_threshold,
                               FilesOf(tree[UnitToOrganise])) = percall']_vars

\* The recordings of the call of a manifest entry in the unit's folder.
RecordingsOf(entry, unit) ==
    {f \in FilesOf(tree[unit]) :
        f.stem = entry.transcription_file.stem /\ f.ext \in AUDIO_EXTENSIONS}

\* C27: in every record the scoring step writes for a transcript whose
\* recording has an extension of AUDIO_EXTENSIONS, audio_file names that
\* recording, and organise_results copies it into the record's directory.
C27_AudioFileNamesRecording ==
    [][(pc = "organise" /\ organised' # organised /\ pc' # "raised_in_organise") =>
          \A k \in 1..Len(manifest[UnitToOrganise].entries) :
            LET entry == manifest[UnitToOrganise].entries[k]
            IN RecordingsOf(entry, UnitToOrganise) # {} =>
                /\ entry.payload.audio_file \in RecordingsOf(entry, UnitToOrganise)
                /\ entry.payload.audio_file \in
                     percall'[TargetDir(UnitToOrganise, entry, score_threshold)].files]_vars

\* transcribe_calls.py, discover_audio_files: folder.glob("*" + extension) for
\* each extension: what lies directly in the folder under a name that ends in
\* the extension as it is written.
DiscoverAudioFiles(entry) ==
    {f \in entry.nodes : f.depth = 1 /\ f.suffix \in AUDIO_EXTENSIONS}

\* C28: every folder that discovery accepts holds an audio file that the
\* transcription step selects, so that step never ends with "No audio files
\* discovered" for a discovered folder.
C28_DiscoveryAgreesWithTranscription ==
    pc # "start" =>
        \A k \in 1..Len(speaker_folders) :
            DiscoverAudioFiles(tree[speaker_folders[k]]) # {}

\* What the step made or changed lies in the destination trees of unit u.
OnlyUnder(u) ==
    /\ \A r \in roots' \ roots :
            r.unit = u /\ r.root \in {"needs_further_attention", "reviewed"}
    /\ \A d \in routed' \ routed : [unit |-> u, root |-> d.root] \in roots'
    /\ \A d \in DOMAIN percall' :
            (d \notin DOMAIN percall \/ percall'[d] # percall[d]) =>
                /\ d.unit = u
                /\ [unit |-> u, root |-> d.root] \in roots'
                /\ d \in routed'

\* C29: a call of organise_results, also one that an exception ends, leaves
\* the folders, their files, their manifests and the job scripts as they are,
\* removes no directory and no file of the destination trees, and makes or
\* writes only under the two destination roots of the unit it was given.
C29_OrganiseOnlyAdds ==
    [][(pc = "organise" /\ organised' # organised) =>
          /\ UNCHANGED <<base_exists, tree, manifest, scripts>>
          /\ roots \subseteq roots'
          /\ routed \subseteq routed'
          /\ DOMAIN percall \subseteq DOMAIN percall'
          /\ \A d \in DOMAIN percall : percall[d].files \subseteq percall'[d].files
          /\ OnlyUnder(UnitToOrganise)]_vars

C29_Witness ==
    /\ pc = "done"
    /\ \E d1, d2 \in DOMAIN percall :
            /\ d1.unit # d2.unit
            /\ percall[d1].files # {}
            /\ percall[d2].files # {}
    /\ \E u \in Folders : outcome[u] = "Skipped"
====
